---- MODULE Spec2Model ----
(***************************************************************************)
(* The live-stream orchestrator of youtube_streamer: the start view, the   *)
(* StreamManager (broadcast creation, acquisition, encoder spawn), the     *)
(* monitor thread with its restart policy, the stop view and               *)
(* StreamManager.stop_stream, over the durable Stream rows, the per-stream *)
(* workspace directory, the process table, the cache mirror and the remote *)
(* broadcasts.                                                             *)
(*                                                                         *)
(* Every manager works on its own in-memory Stream object; Model.save()    *)
(* writes all fields of that object over the row.  A step of the model is  *)
(* one phase of a handler: the view up to the construction of the manager, *)
(* create_broadcast, acquisition, spawn with the start of the monitor and  *)
(* the save of 'running', one turn of the monitor loop, the stop before    *)
(* and after its two-second sleep.                                         *)
(***************************************************************************)
EXTENDS Integers, FiniteSets, Sequences, TLC

\* ---------------------------------------------------------------- bounds
\* start requests (each makes one StreamManager and, at most, one monitor)
MaxRuns == 2
\* stop requests (each makes one fresh StreamManager)
MaxStops == 1
\* items of a listing (media files of a stream, videos of a playlist)
MaxItems == 5
\* passes over the sources in a concat file
MaxLoops == 3
\* characters of a path or URL
MaxValueLen == 3
\* calls of stop_stream on one manager
MaxStopCalls == 2
\* the age of a heartbeat, in minutes
MaxAgeMinutes == 4

\* ------------------------------------------------------ program constants
MAX_STREAM_RESTARTS == 3
MAX_CONCURRENT_DOWNLOADS == 2
BackoffCap == 60
BackoffBase == 5
\* process_id = None, broadcast_id = ''
NoPid == 0
NoBroadcast == 0
\* last_heartbeat = None
NoHeartbeat == 0
\* timedelta(minutes=2)
StaleAfterMinutes == 2
\* the age of a last_heartbeat that is None
NoAge == -1

Streams == {1, 2}
Runs == 1..MaxRuns
Stops == 1..MaxStops
\* one process identity per spawn a run can make (with one spare)
SpawnsPerRun == MAX_STREAM_RESTARTS + 2
Pids == 1..(MaxRuns * SpawnsPerRun)

\* Stream.youtube_account: both streams stream to the same channel
AccountOf(s) == 1

ActiveStatuses == {"running", "starting"}
STATUS_CHOICES == {"idle", "starting", "running", "stopping", "stopped", "error"}

\* error_message values
NoMsg == ""
StartMsg == "start failed"
FinalMsg == "FFmpeg failed after N restarts"

Min(a, b) == IF a <= b THEN a ELSE b

VARIABLES
    db,            \* the Stream rows: status, process_id, broadcast_id, error_message, started_at (set or not), last_heartbeat
    tempdir,       \* tempdir[s]: TEMP_DIR/<s> exists
    remote,        \* remote[r]: the broadcast run r created at the destination
    cache,         \* cache[s]: pid cached under stream:<s> with status running, or NoPid
    cache_up,      \* the cache backend answers (FALSE: every command to it fails)
    procs,         \* procs[p]: the encoder process p
    pc,            \* pc[r]: where start request r is in stream_start
    streamOf,      \* streamOf[r]: the stream of start request r
    mem,           \* mem[r]: the Stream object of r's view, manager and monitor
    youtube,       \* youtube[r]: manager.youtube is set
    ffmpeg_process,\* ffmpeg_process[r]: manager.ffmpeg_process (a pid)
    spawned,       \* spawned[r]: processes launched by r's manager so far
    mpc,           \* mpc[r]: where r's monitor thread is
    restarts,      \* restarts[r]: the monitor's restart counter
    backoff,       \* backoff[r]: the delay the monitor last slept
    current_proc,  \* current_proc[r]: the process the monitor waits on
    spc,           \* spc[k]: where stop request k is
    sstream,       \* sstream[k]: the stream of stop request k
    smem,          \* smem[k]: the Stream object of k's view and manager
    syoutube,      \* syoutube[k]: the stop manager's youtube client is set
    endAttempted,  \* endAttempted[k]: k issued liveBroadcasts().transition(complete)
    stop_log,      \* stop_log[k]: per call of stop_stream, the state the transition call met and the value returned
    transitions,   \* the broadcasts for which transition(complete) has been called
    window,        \* window[k]: the start requests that were before their spawn when k began
    cancelled,     \* cancelled[r]: a stop_stream of r's stream finished while r was before its spawn
    stream_source, \* "media", "playlist" (download) or "direct": the _start_*_stream taken
    stream_fields, \* the row's stream_source and playlist_serve_mode, which start_ffmpeg_stream reads
    video_ids,     \* the number of items listed: media files, or videos of the playlist
    failing,       \* the ordinals whose download or URL extraction fails
    loops,         \* the loops argument of the concat builder
    file_paths,    \* file_paths / video_urls: ordinal or media id -> path, URL or None
    concat,        \* the entries written to the concat file, in order
    value,         \* a path or URL, as characters
    line,          \* what the builder writes after "file " for that value
    parsed,        \* what the concat demuxer reads back from the line
    lpc,           \* "value", "written", "read"
    submitted,     \* download_files_parallel: the media files handed to the executor so far
    work_queue,    \* the executor's queue: submitted downloads no worker has taken
    in_progress,   \* the downloads a worker thread is running
    attempts,      \* attempts[i]: the calls of download_s3_file_chunked for media file i
    liveness       \* a call of Stream.is_process_alive: process_id, the age of last_heartbeat, what has the pid at the OS, and the value returned

vars == <<db, tempdir, remote, cache, cache_up, procs, pc, streamOf, mem, youtube,
          ffmpeg_process, spawned, mpc, restarts, backoff, current_proc,
          spc, sstream, smem, syoutube, endAttempted, transitions, window,
          stop_log, cancelled, stream_source, stream_fields, stream_fields, video_ids, failing,
          loops, file_paths, concat, value, line, parsed, lpc, liveness, submitted, work_queue,
          in_progress, attempts>>

startVars == <<pc, streamOf, mem, youtube, ffmpeg_process, spawned>>
monVars == <<mpc, restarts, backoff, current_proc>>
stopVars == <<spc, sstream, smem, syoutube, endAttempted, transitions,
              stop_log, window>>
lineVars == <<value, line, parsed, lpc>>
poolVars == <<submitted, work_queue, in_progress, attempts>>
acqVars == <<stream_source, stream_fields, video_ids, failing, loops, file_paths, concat,
             lineVars, cache_up, liveness, poolVars>>

\* ---------------------------------------------------------------- helpers

\* a Stream row as the model's default: status idle, no process, no
\* broadcast, started_at and last_heartbeat null
NewStream == [status |-> "idle", process_id |-> NoPid,
              broadcast_id |-> NoBroadcast, error_message |-> NoMsg,
              started_at |-> FALSE, last_heartbeat |-> NoHeartbeat]

\* a cache whose failed command raises into the caller
CacheRaisesAs(up) == ~up
\* CACHES['default']['OPTIONS']['IGNORE_EXCEPTIONS'] = True: a command to a
\* backend that is down returns None, nothing is raised (the in-memory
\* backend of development is never down)
CacheRaises(up) == FALSE

\* StreamCache.set_process_info(stream_id, pid, 'running'): an exception of
\* cache.set is logged
SetProcessInfo(s, p) ==
    IF cache_up THEN [cache EXCEPT ![s] = p] ELSE cache

\* a start that records the pid and the status and leaves started_at alone
RunningAs(rec, p) == [rec EXCEPT !.process_id = p, !.status = "running"]
\* process_id = self.ffmpeg_process.pid, status = 'running',
\* started_at = datetime.now()
Running(rec, p) == [rec EXCEPT !.process_id = p, !.status = "running",
                               !.started_at = TRUE]

\* a restart that records the status and keeps the pid of the old process
RestartedAs(rec, p) == [rec EXCEPT !.status = "running"]
\* the restart in _monitor_ffmpeg: process_id = current_proc.pid,
\* status = 'running'
Restarted(rec, p) == [rec EXCEPT !.process_id = p, !.status = "running"]

\* a stop that records the status and keeps the pid
StoppedAs(rec) == [rec EXCEPT !.status = "stopped"]
\* stop_stream: status = 'stopped', process_id = None (stopped_at is set)
Stopped(rec) == [rec EXCEPT !.status = "stopped", !.process_id = NoPid]

\* unique_active_stream_per_channel: a unique index on (youtube_account, status)
\* over the rows whose status is running or starting
ViolatesUnique(s, rec) ==
    /\ rec.status \in ActiveStatuses
    /\ \E t \in Streams \ {s} :
          /\ AccountOf(t) = AccountOf(s)
          /\ db[t].status = rec.status

\* Model.save(): every field of the object is written over the row
Saved(s, rec) == [db EXCEPT ![s] = rec]

\* _set_error
SetError(rec) == [rec EXCEPT !.status = "error", !.error_message = StartMsg]

\* an except branch that records the message and leaves the status alone
ViewErrorAs(rec) == [rec EXCEPT !.error_message = StartMsg]
\* the except branch of stream_start: status 'error' and str(e)
ViewError(rec) == [rec EXCEPT !.status = "error", !.error_message = StartMsg]

\* the pid of the next process run r launches
NextPid(r) == (r - 1) * SpawnsPerRun + spawned[r] + 1

\* a doubling delay: min(60, 5 * 2^(restarts - 1))
BackoffAs(n) == Min(BackoffCap, BackoffBase * (2 ^ (n - 1)))
\* min(60, 5 * restarts)
Backoff(n) == Min(BackoffCap, BackoffBase * n)

\* a loop that takes one more turn: restarts <= MAX_STREAM_RESTARTS
LoopContinuesAs(n) == n <= MAX_STREAM_RESTARTS
\* while restarts < MAX_STREAM_RESTARTS
LoopContinues(n) == n < MAX_STREAM_RESTARTS

\* 'error' if restarts >= MAX_STREAM_RESTARTS else 'stopped'
FinalStatus(n) == IF n >= MAX_STREAM_RESTARTS THEN "error" ELSE "stopped"

Alive(p) == p # NoPid /\ procs[p] = "alive"
\* the process has ended: by itself, with some exit code, or by a signal
Exited(p) == p # NoPid /\ procs[p] \in {"exited", "killed"}

\* ------------------------------------------------------------------- Init

\* the state after deployment with n start requests still to come: every
\* stream idle, no workspace, no process, nothing cached; the cache backend
\* is there (up) or is not, for good
InitRuns(n, up) ==
    /\ cache_up = up
    /\ db = [s \in Streams |-> NewStream]
    /\ tempdir = [s \in Streams |-> FALSE]
    /\ remote = [r \in Runs |-> "none"]
    /\ cache = [s \in Streams |-> NoPid]
    /\ procs = [p \in Pids |-> "none"]
    /\ pc = [r \in Runs |-> IF r <= n THEN "idle" ELSE "absent"]
    /\ streamOf = [r \in Runs |-> 1]
    /\ mem = [r \in Runs |-> NewStream]
    /\ youtube = [r \in Runs |-> FALSE]
    /\ ffmpeg_process = [r \in Runs |-> NoPid]
    /\ spawned = [r \in Runs |-> 0]
    /\ mpc = [r \in Runs |-> "idle"]
    /\ restarts = [r \in Runs |-> 0]
    /\ backoff = [r \in Runs |-> 0]
    /\ current_proc = [r \in Runs |-> NoPid]
    /\ spc = [k \in Stops |-> "idle"]
    /\ sstream = [k \in Stops |-> 1]
    /\ smem = [k \in Stops |-> NewStream]
    /\ syoutube = [k \in Stops |-> FALSE]
    /\ endAttempted = [k \in Stops |-> FALSE]
    /\ transitions = {}
    /\ stop_log = [k \in Stops |-> << >>]
    /\ window = [k \in Stops |-> {}]
    /\ cancelled = [r \in Runs |-> FALSE]

InitWith(n) == InitRuns(n, TRUE)

\* no bulk download is followed download by download
NoPool ==
    /\ submitted = 0
    /\ work_queue = << >>
    /\ in_progress = {}
    /\ attempts = << >>

\* no call of is_process_alive is followed
NoCall == [process_id |-> NoPid, age |-> NoAge, os |-> "none",
           called |-> FALSE, returned |-> FALSE]

\* no line of a concat file is followed character by character, and no
\* liveness check
NoLine ==
    /\ liveness = NoCall
    /\ NoPool
    /\ value = << >>
    /\ line = << >>
    /\ parsed = << >>
    /\ lpc = "none"

\* no _start_*_stream method has been entered
NoMethod == "none"
\* hasattr(self.stream, 'playlist_serve_mode') is false
NoAttribute == "absent"
\* the fields of a stream of uploaded media files
MediaFields == [stream_source |-> "media_files",
                playlist_serve_mode |-> "download"]

\* a dispatch that takes no account of the serve mode
StartMethodAs(f) ==
    IF f.stream_source = "playlist" THEN "playlist" ELSE "media"
\* start_ffmpeg_stream: the _start_*_stream method the fields select
StartMethod(f) ==
    IF f.stream_source = "playlist"
    THEN IF f.playlist_serve_mode # NoAttribute
            /\ f.playlist_serve_mode = "direct"
         THEN "direct" ELSE "playlist"
    ELSE "media"

\* the sources of the start that is followed statement by statement: none
\* where the starts are followed phase by phase
NoSources ==
    /\ stream_source = "media"
    /\ stream_fields = MediaFields
    /\ video_ids = 0
    /\ failing = {}
    /\ loops = 1
    /\ file_paths = << >>
    /\ concat = << >>
    /\ NoLine

Init == InitWith(MaxRuns) /\ NoSources

\* ------------------------------------------------- stream_start (the view)

\* the except branch of stream_start: status 'error' and str(e) are saved and
\* the view returns
ViewFails(r, s, rec) ==
    /\ mem' = [mem EXCEPT ![r] = ViewError(rec)]
    /\ db' = Saved(s, ViewError(rec))
    /\ pc' = [pc EXCEPT ![r] = "failed"]

\* an except branch of the manager: _set_error (a save of status 'error'),
\* then _cleanup_temp_files when the branch calls it; None is returned, the
\* view raises and its own except branch runs
ManagerFails(r, rec, cleanup) ==
    /\ ViewFails(r, streamOf[r], SetError(rec))
    /\ tempdir' = IF cleanup THEN [tempdir EXCEPT ![streamOf[r]] = FALSE]
                  ELSE tempdir

\* stream_start up to the construction of the manager: the row is loaded, a
\* running stream is left alone, otherwise 'starting' is saved and
\* StreamManager(stream) makes the workspace directory.  The save of
\* 'starting' raises IntegrityError when the unique index refuses it, and the
\* view's except branch runs.
StreamStart(r, s) ==
    /\ pc[r] = "idle"
    /\ \A q \in Runs : q < r => pc[q] # "idle"
    /\ r = 1 => s = 1
    /\ streamOf' = [streamOf EXCEPT ![r] = s]
    /\ LET m == [db[s] EXCEPT !.status = "starting"] IN
       \/ /\ db[s].status = "running"
          /\ mem' = [mem EXCEPT ![r] = db[s]]
          /\ pc' = [pc EXCEPT ![r] = "returned"]
          /\ UNCHANGED <<db, tempdir>>
       \/ /\ db[s].status # "running"
          /\ ~ViolatesUnique(s, m)
          /\ mem' = [mem EXCEPT ![r] = m]
          /\ db' = Saved(s, m)
          /\ tempdir' = [tempdir EXCEPT ![s] = TRUE]
          /\ pc' = [pc EXCEPT ![r] = "create_broadcast"]
       \/ /\ db[s].status # "running"
          /\ ViolatesUnique(s, m)
          /\ ViewFails(r, s, m)
          /\ UNCHANGED tempdir
    /\ UNCHANGED <<remote, cache, procs, youtube, ffmpeg_process, spawned,
                   monVars, stopVars, cancelled>>
    /\ UNCHANGED acqVars

\* create_broadcast.  A failed authentication returns None with the row
\* untouched; a failed liveBroadcasts().insert goes through _set_error; so
\* does a failed liveStreams().insert or bind, the broadcast already made;
\* otherwise broadcast_id, stream_key and stream_url are saved.
CreateBroadcast(r) ==
    /\ pc[r] = "create_broadcast"
    /\ LET s == streamOf[r]
           m == [mem[r] EXCEPT !.broadcast_id = r] IN
       \/ /\ ViewFails(r, s, mem[r])
          /\ UNCHANGED <<remote, youtube, tempdir>>
       \/ /\ youtube' = [youtube EXCEPT ![r] = TRUE]
          /\ ManagerFails(r, mem[r], FALSE)
          /\ UNCHANGED remote
       \/ /\ youtube' = [youtube EXCEPT ![r] = TRUE]
          /\ remote' = [remote EXCEPT ![r] = "created"]
          /\ ManagerFails(r, mem[r], FALSE)
       \/ /\ youtube' = [youtube EXCEPT ![r] = TRUE]
          /\ remote' = [remote EXCEPT ![r] = "created"]
          /\ ~ViolatesUnique(s, m)
          /\ mem' = [mem EXCEPT ![r] = m]
          /\ db' = Saved(s, m)
          /\ pc' = [pc EXCEPT ![r] = "acquire"]
          /\ UNCHANGED tempdir
       \/ /\ youtube' = [youtube EXCEPT ![r] = TRUE]
          /\ remote' = [remote EXCEPT ![r] = "created"]
          /\ ViolatesUnique(s, m)
          /\ ManagerFails(r, m, FALSE)
    /\ UNCHANGED <<cache, procs, streamOf, ffmpeg_process, spawned,
                   monVars, stopVars, cancelled>>
    /\ UNCHANGED acqVars

\* start_ffmpeg_stream up to the concat file: the sources are acquired and
\* the playlist is written under the workspace (get_temp_dir_for_stream
\* makes the directory again when it is gone)
AcquireAndBuild(r) ==
    /\ pc[r] = "acquire"
    /\ \/ ManagerFails(r, mem[r], TRUE)
       \/ /\ tempdir' = [tempdir EXCEPT ![streamOf[r]] = TRUE]
          /\ pc' = [pc EXCEPT ![r] = "spawn"]
          /\ UNCHANGED <<db, mem>>
    /\ UNCHANGED <<remote, cache, procs, streamOf, youtube, ffmpeg_process,
                   spawned, monVars, stopVars, cancelled>>
    /\ UNCHANGED acqVars

\* the rest of _start_*_stream: _build_ffmpeg_command, _spawn_ffmpeg,
\* _start_monitor_thread, then process_id and 'running' are saved and the
\* cache mirror is set.  The outcomes: no process (the binary is not found,
\* Popen raises); a process is launched and the creation of the log thread or
\* of the monitor thread raises (the module uses threading.Thread and never
\* imports threading: where the name is unbound this is the outcome of every
\* call); a process is launched, the monitor thread starts with restarts = 0
\* and current_proc = self.ffmpeg_process, and the save of 'running' is
\* refused by the unique index; or the save succeeds and the view reports
\* success.
SpawnFfmpeg(r) ==
    /\ pc[r] = "spawn"
    /\ LET s == streamOf[r]
           p == NextPid(r)
           m == Running(mem[r], p) IN
       \/ /\ ManagerFails(r, mem[r], TRUE)
          /\ UNCHANGED <<procs, spawned, ffmpeg_process, monVars, cache>>
       \/ /\ procs' = [procs EXCEPT ![p] = "alive"]
          /\ spawned' = [spawned EXCEPT ![r] = @ + 1]
          /\ ManagerFails(r, mem[r], TRUE)
          /\ UNCHANGED <<ffmpeg_process, monVars, cache>>
       \/ /\ procs' = [procs EXCEPT ![p] = "alive"]
          /\ spawned' = [spawned EXCEPT ![r] = @ + 1]
          /\ ffmpeg_process' = [ffmpeg_process EXCEPT ![r] = p]
          /\ mpc' = [mpc EXCEPT ![r] = IF LoopContinues(0) THEN "wait"
                                        ELSE "finalize"]
          /\ restarts' = [restarts EXCEPT ![r] = 0]
          /\ current_proc' = [current_proc EXCEPT ![r] = p]
          /\ UNCHANGED backoff
          /\ \/ /\ ~ViolatesUnique(s, m)
                /\ mem' = [mem EXCEPT ![r] = m]
                /\ db' = Saved(s, m)
                /\ cache' = SetProcessInfo(s, p)
                /\ pc' = [pc EXCEPT ![r] = "started"]
                /\ UNCHANGED tempdir
             \/ /\ ViolatesUnique(s, m)
                /\ ManagerFails(r, m, TRUE)
                /\ UNCHANGED cache
    /\ UNCHANGED <<remote, streamOf, youtube, stopVars, cancelled>>
    /\ UNCHANGED acqVars

\* ------------------------------------------------- _monitor_ffmpeg (thread)

\* current_proc.wait() returns.  Exit code 0 (the encoder reached the end of
\* its playlist) leaves the loop; any other code (a failure, or the negative
\* code of the signal that ended the process) counts a restart and sleeps
\* min(60, 5 * restarts).
MonitorObserveExit(r) ==
    /\ mpc[r] = "wait"
    /\ Exited(current_proc[r])
    /\ \/ /\ procs[current_proc[r]] = "exited"
          /\ mpc' = [mpc EXCEPT ![r] = "finalize"]
          /\ UNCHANGED <<restarts, backoff>>
       \/ /\ restarts' = [restarts EXCEPT ![r] = @ + 1]
          /\ backoff' = [backoff EXCEPT ![r] = Backoff(restarts[r] + 1)]
          /\ mpc' = [mpc EXCEPT ![r] = "backoff"]
    /\ UNCHANGED <<db, tempdir, remote, cache, procs, startVars, current_proc,
                   stopVars, cancelled>>
    /\ UNCHANGED acqVars

\* after the sleep: _spawn_ffmpeg(cmd) with the same cmd, then process_id and
\* 'running' are saved and the cache mirror is set; any exception leaves the
\* loop.  Then the loop condition is evaluated.
MonitorRestart(r) ==
    /\ mpc[r] = "backoff"
    /\ LET s == streamOf[r]
           p == NextPid(r)
           m == Restarted(mem[r], p) IN
       \/ /\ mpc' = [mpc EXCEPT ![r] = "finalize"]
          /\ UNCHANGED <<db, cache, procs, mem, spawned, current_proc>>
       \/ /\ procs' = [procs EXCEPT ![p] = "alive"]
          /\ spawned' = [spawned EXCEPT ![r] = @ + 1]
          /\ mpc' = [mpc EXCEPT ![r] = "finalize"]
          /\ UNCHANGED <<db, cache, mem, current_proc>>
       \/ /\ procs' = [procs EXCEPT ![p] = "alive"]
          /\ spawned' = [spawned EXCEPT ![r] = @ + 1]
          /\ current_proc' = [current_proc EXCEPT ![r] = p]
          /\ mem' = [mem EXCEPT ![r] = m]
          /\ \/ /\ ~ViolatesUnique(s, m)
                /\ db' = Saved(s, m)
                /\ cache' = SetProcessInfo(s, p)
                /\ mpc' = [mpc EXCEPT ![r] = IF LoopContinues(restarts[r])
                                              THEN "wait" ELSE "finalize"]
             \/ /\ ViolatesUnique(s, m)
                /\ mpc' = [mpc EXCEPT ![r] = "finalize"]
                /\ UNCHANGED <<db, cache>>
    /\ UNCHANGED <<tempdir, remote, pc, streamOf, youtube, ffmpeg_process,
                   restarts, backoff, stopVars, cancelled>>
    /\ UNCHANGED acqVars

\* _finalize_stream(restarts): the final status is saved, the cache entry
\* deleted, the workspace removed; an exception anywhere ends it there with a
\* log line
MonitorFinalize(r) ==
    /\ mpc[r] = "finalize"
    /\ LET s == streamOf[r]
           m == [mem[r] EXCEPT !.process_id = NoPid,
                               !.status = FinalStatus(restarts[r]),
                               !.error_message = FinalMsg] IN
       /\ mem' = [mem EXCEPT ![r] = m]
       /\ db' = Saved(s, m)
       /\ cache' = IF cache_up THEN [cache EXCEPT ![s] = NoPid] ELSE cache
       /\ tempdir' = IF CacheRaises(cache_up) THEN tempdir
                     ELSE [tempdir EXCEPT ![s] = FALSE]
    /\ mpc' = [mpc EXCEPT ![r] = "done"]
    /\ UNCHANGED <<remote, procs, pc, streamOf, youtube, ffmpeg_process,
                   spawned, restarts, backoff, current_proc, stopVars,
                   cancelled>>
    /\ UNCHANGED acqVars

\* --------------------------------------- stream_stop and stop_stream

\* the phases of a start in which no encoder has been spawned yet
PreSpawn == {"create_broadcast", "acquire", "spawn"}

\* if self.youtube and self.stream.broadcast_id
EndsBroadcast(yt, rec) == yt /\ rec.broadcast_id # NoBroadcast

\* a stop whose signal to a process that is gone is an error like any other
KillRaisesAs(gone) == gone
\* os.killpg(os.getpgid(pid), ...) in try ... except ProcessLookupError:
\* pass: nothing is raised, the process gone or not
KillRaises(gone) == FALSE

\* stream_stop and the head of stop_stream: the row is loaded, 'stopping' is
\* saved, StreamManager(stream) is constructed (youtube = None, the workspace
\* directory is made), and os.killpg(os.getpgid(process_id), SIGTERM) is
\* called when the row has a process_id.  The process is gone:
\* ProcessLookupError is passed over.  Otherwise the group is signalled, and
\* the encoder ends or is still there after the two seconds.
StreamStop(k, s) ==
    /\ spc[k] = "idle"
    /\ \A j \in Stops : j < k => spc[j] # "idle"
    /\ sstream' = [sstream EXCEPT ![k] = s]
    /\ smem' = [smem EXCEPT ![k] = [db[s] EXCEPT !.status = "stopping"]]
    /\ db' = Saved(s, [db[s] EXCEPT !.status = "stopping"])
    /\ tempdir' = [tempdir EXCEPT ![s] = TRUE]
    /\ syoutube' = [syoutube EXCEPT ![k] = FALSE]
    /\ window' = [window EXCEPT
                    ![k] = {r \in Runs : streamOf[r] = s /\ pc[r] \in PreSpawn}]
    /\ LET p == db[s].process_id IN
       \/ /\ ~Alive(p)
          /\ IF p # NoPid /\ KillRaises(~Alive(p))
             THEN /\ spc' = [spc EXCEPT ![k] = "done"]
                  /\ stop_log' = [stop_log EXCEPT
                        ![k] = Append(@, [met |-> "not called",
                                          returned |-> FALSE])]
             ELSE /\ spc' = [spc EXCEPT ![k] = "finish"]
                  /\ UNCHANGED stop_log
          /\ UNCHANGED procs
       \/ /\ Alive(p)
          /\ spc' = [spc EXCEPT ![k] = "sigkill"]
          /\ UNCHANGED stop_log
          /\ \/ procs' = [procs EXCEPT ![p] = "killed"]
             \/ UNCHANGED procs
    /\ UNCHANGED <<remote, cache, startVars, monVars, endAttempted,
                   transitions, cancelled>>
    /\ UNCHANGED acqVars

\* liveBroadcasts().transition(broadcastStatus='complete').execute() on a
\* broadcast in state st: a live broadcast is completed, or the call fails;
\* on a completed or forbidden broadcast the API answers with an error
TransitionOutcomes(st) ==
    IF st = "created" THEN {"ok", "error"} ELSE {"error"}

\* a call whose error leaves stop_stream
SwallowedAs(o) == o # "error"
\* try: ...transition(...).execute() except Exception: logger.warning
Swallowed(o) == TRUE

\* the rest of stop_stream: after the sleep, os.killpg(.., SIGKILL) when
\* SIGTERM was sent (a process that is gone is passed over); the broadcast is
\* transitioned to complete when the manager has a youtube client and the row
\* a broadcast_id (a failure of the call is logged); 'stopped' and
\* process_id = None are saved; the workspace is removed; True is returned.
\* An exception that reaches the outer except makes it return False.
StopFinish(k) ==
    /\ spc[k] \in {"sigkill", "finish"}
    /\ LET s == sstream[k]
           p == smem[k].process_id
           b == smem[k].broadcast_id
           raised == spc[k] = "sigkill" /\ KillRaises(~Alive(p))
           ends == ~raised /\ EndsBroadcast(syoutube[k], smem[k])
           m == Stopped(smem[k]) IN
       /\ procs' = IF spc[k] = "sigkill" /\ Alive(p)
                   THEN [procs EXCEPT ![p] = "killed"] ELSE procs
       /\ endAttempted' = [endAttempted EXCEPT ![k] = ends]
       /\ transitions' = IF ends THEN transitions \cup {b} ELSE transitions
       /\ \E o \in IF ends THEN TransitionOutcomes(remote[b])
                   ELSE {"not called"} :
             /\ remote' = IF o = "ok" THEN [remote EXCEPT ![b] = "complete"]
                          ELSE remote
             /\ stop_log' = [stop_log EXCEPT
                   ![k] = Append(@, [met |-> IF ends THEN remote[b] ELSE o,
                                     returned |-> ~raised /\ Swallowed(o)])]
             /\ IF ~raised /\ Swallowed(o)
                THEN /\ smem' = [smem EXCEPT ![k] = m]
                     /\ db' = Saved(s, m)
                     /\ tempdir' = [tempdir EXCEPT ![s] = FALSE]
                ELSE UNCHANGED <<smem, db, tempdir>>
       /\ cancelled' = [r \in Runs |->
                          \/ cancelled[r]
                          \/ r \in window[k] /\ pc[r] \in PreSpawn]
    /\ spc' = [spc EXCEPT ![k] = "done"]
    /\ UNCHANGED <<cache, startVars, monVars, sstream, syoutube, window>>
    /\ UNCHANGED acqVars

\* stop_stream is called once more on the same manager: the Stream object
\* has no process_id now
StopStreamAgain(k) ==
    /\ spc[k] = "done"
    /\ Len(stop_log[k]) < MaxStopCalls
    /\ spc' = [spc EXCEPT ![k] = "finish"]
    /\ UNCHANGED <<db, tempdir, remote, cache, procs, startVars, monVars,
                   sstream, smem, syoutube, endAttempted, transitions,
                   stop_log, window, cancelled, acqVars>>

\* a manager that may have authenticated, made for a row that is
\* 'stopping', is in stop_stream: past the SIGTERM to a live encoder, or
\* with no process to signal; the broadcast of the row, if it has one, is
\* live, completed or forbidden
InitStop ==
    \E yt \in BOOLEAN, b \in {NoBroadcast, 1}, p \in {NoPid, 1},
       st \in {"created", "complete", "forbidden"},
       ps \in {"alive", "exited"} :
       LET row == [NewStream EXCEPT !.status = "stopping", !.process_id = p,
                                    !.broadcast_id = b] IN
       /\ db = [s \in Streams |-> IF s = 1 THEN row ELSE NewStream]
       /\ tempdir = [s \in Streams |-> s = 1]
       /\ remote = [r \in Runs |-> IF r = 1 THEN st ELSE "none"]
       /\ cache = [s \in Streams |-> NoPid]
       /\ cache_up = TRUE
       /\ procs = [q \in Pids |-> IF q = p THEN ps ELSE "none"]
       /\ pc = [r \in Runs |-> "absent"]
       /\ streamOf = [r \in Runs |-> 1]
       /\ mem = [r \in Runs |-> NewStream]
       /\ youtube = [r \in Runs |-> FALSE]
       /\ ffmpeg_process = [r \in Runs |-> NoPid]
       /\ spawned = [r \in Runs |-> 0]
       /\ mpc = [r \in Runs |-> "idle"]
       /\ restarts = [r \in Runs |-> 0]
       /\ backoff = [r \in Runs |-> 0]
       /\ current_proc = [r \in Runs |-> NoPid]
       /\ spc = [k \in Stops |->
                   IF k # 1 THEN "absent"
                   ELSE IF p # NoPid /\ ps = "alive" THEN "sigkill"
                   ELSE "finish"]
       /\ sstream = [k \in Stops |-> 1]
       /\ smem = [k \in Stops |-> IF k = 1 THEN row ELSE NewStream]
       /\ syoutube = [k \in Stops |-> k = 1 /\ yt]
       /\ endAttempted = [k \in Stops |-> FALSE]
       /\ transitions = {}
       /\ stop_log = [k \in Stops |-> << >>]
       /\ window = [k \in Stops |-> {}]
       /\ cancelled = [r \in Runs |-> FALSE]
       /\ NoSources

\* ------------------------------------------------- the encoder processes

\* the encoder ends by itself: at the end of its playlist with exit code 0,
\* or on a failure with another code (wait() tells which)
EncoderExits(p) ==
    /\ Alive(p)
    /\ procs' = [procs EXCEPT ![p] = "exited"]
    /\ UNCHANGED <<db, tempdir, remote, cache, startVars, monVars, stopVars,
                   cancelled>>
    /\ UNCHANGED acqVars

\* ------------------------------------ a start, statement by statement

\* the value download_s3_file_chunked returns for a failed download
NoPath == -1

\* the ordinals enumerate() gives a listing of n items; the path or URL got
\* for the item at ordinal i is written i
Ordinals(n) == 0..(n - 1)

\* media_files, a list: the media file at position j has id j - 1
MediaFiles(n) == [j \in 1..n |-> j - 1]

\* download_files_parallel: file_paths[media_file.id] = future.result(), the
\* path, or None where download_s3_file_chunked caught a failure
DownloadFilesParallel(n, F) ==
    [i \in Ordinals(n) |-> IF i \in F THEN NoPath ELSE i]

\* a resolution that numbers its results as they come
ResolveSequentialAs(n, F) ==
    [j \in 0..(Cardinality(Ordinals(n) \ F) - 1) |-> j]
\* _download_playlist_videos and _get_playlist_video_urls:
\* for idx, video_id in enumerate(video_ids): file_paths[idx] = file_path
\* where a path or URL was got; a failed item is skipped
ResolveSequential(n, F) == [i \in Ordinals(n) \ F |-> i]

\* a check that lets an empty result pass
NothingResolvedAs(paths) == FALSE
\* if not file_paths: raise; if not video_urls: raise
NothingResolved(paths) == DOMAIN paths = {}

\* a sort in descending order
RECURSIVE SortedKeysAs(_)
SortedKeysAs(K) ==
    IF K = {} THEN << >>
    ELSE LET m == CHOOSE x \in K : \A y \in K : x >= y
         IN  <<m>> \o SortedKeysAs(K \ {m})
\* sorted(file_paths.keys())
RECURSIVE SortedKeys(_)
SortedKeys(K) ==
    IF K = {} THEN << >>
    ELSE LET m == CHOOSE x \in K : \A y \in K : x <= y
         IN  <<m>> \o SortedKeys(K \ {m})

\* for loop in range(loops): the inner loop writes one pass
RECURSIVE Passes(_, _)
Passes(pass, n) == IF n = 0 THEN << >> ELSE pass \o Passes(pass, n - 1)

\* create_concat_file: for media_file in media_files, file_paths[media_file.id]
CreateConcatFile(media_files, paths, n) ==
    Passes([j \in 1..Len(media_files) |-> paths[media_files[j]]], n)

\* _create_playlist_concat_file: for idx in sorted(file_paths.keys())
CreatePlaylistConcatFile(paths, n) ==
    LET keys == SortedKeys(DOMAIN paths)
    IN  Passes([j \in 1..Len(keys) |-> paths[keys[j]]], n)

\* _create_direct_concat_file: for idx in sorted(video_urls.keys())
CreateDirectConcatFile(urls, n) ==
    LET keys == SortedKeys(DOMAIN urls)
    IN  Passes([j \in 1..Len(keys) |-> urls[keys[j]]], n)

\* the statements of a start after the save of 'starting', in program order
Phases == <<"create_broadcast", "insert", "acquire", "resolve", "concat",
            "spawn", "monitor", "save", "started">>
Position(p) == CHOOSE i \in 1..Len(Phases) : Phases[i] = p
\* the statement reached when the one at p returns
PhaseAfter(p) == Phases[Position(p) + 1]

\* the start of the run whose sources are followed: the sources of the
\* stream are drawn with the request
InitSources ==
    /\ stream_source = NoMethod
    /\ stream_fields \in [stream_source : {"media_files", "playlist"},
                          playlist_serve_mode : {NoAttribute, "download",
                                                 "direct"}]
    /\ video_ids \in 0..MaxItems
    /\ failing \in SUBSET Ordinals(video_ids)
    /\ loops \in 1..MaxLoops
    /\ file_paths = << >>
    /\ concat = << >>
    /\ NoLine

\* create_broadcast, first statement: authenticate_youtube unless the
\* manager has a client; on failure None is returned, the row untouched
Authenticate(r) ==
    /\ pc[r] = "create_broadcast"
    /\ \/ /\ ViewFails(r, streamOf[r], mem[r])
          /\ UNCHANGED youtube
       \/ /\ youtube' = [youtube EXCEPT ![r] = TRUE]
          /\ pc' = [pc EXCEPT ![r] = PhaseAfter("create_broadcast")]
          /\ UNCHANGED <<db, mem>>
    /\ UNCHANGED <<tempdir, remote, cache, procs, streamOf, ffmpeg_process,
                   spawned, monVars, stopVars, cancelled, acqVars>>

\* a view that goes on whatever create_broadcast returned
ViewRaisesOnAs(returned) == FALSE
\* broadcast_id = manager.create_broadcast(); if not broadcast_id: raise
ViewRaisesOn(returned) == returned = NoBroadcast

\* a remote call of create_broadcast raises: the except branch runs
\* _set_error and returns None, and the view tests what was returned
CreationFails(r) ==
    IF ViewRaisesOn(NoBroadcast)
    THEN ManagerFails(r, mem[r], FALSE)
    ELSE /\ mem' = [mem EXCEPT ![r] = SetError(mem[r])]
         /\ db' = Saved(streamOf[r], SetError(mem[r]))
         /\ pc' = [pc EXCEPT ![r] = PhaseAfter("insert")]
         /\ UNCHANGED tempdir

\* create_broadcast, the rest: liveBroadcasts().insert, liveStreams().insert,
\* bind, the save of broadcast_id; any exception goes through _set_error.
\* The first insert fails; or the broadcast is made and the second insert or
\* the bind fails; or all three calls succeed
InsertBroadcast(r) ==
    /\ pc[r] = "insert"
    /\ LET s == streamOf[r]
           m == [mem[r] EXCEPT !.broadcast_id = r] IN
       \/ /\ CreationFails(r)
          /\ UNCHANGED remote
       \/ /\ remote' = [remote EXCEPT ![r] = "created"]
          /\ CreationFails(r)
       \/ /\ remote' = [remote EXCEPT ![r] = "created"]
          /\ ~ViolatesUnique(s, m)
          /\ mem' = [mem EXCEPT ![r] = m]
          /\ db' = Saved(s, m)
          /\ pc' = [pc EXCEPT ![r] = PhaseAfter("insert")]
          /\ UNCHANGED tempdir
       \/ /\ remote' = [remote EXCEPT ![r] = "created"]
          /\ ViolatesUnique(s, m)
          /\ ManagerFails(r, m, FALSE)
    /\ UNCHANGED <<cache, procs, streamOf, youtube, ffmpeg_process, spawned,
                   monVars, stopVars, cancelled, acqVars>>

\* start_ffmpeg_stream dispatches on the source, and the sources are listed:
\* list(self.stream.media_files.all()), _get_playlist_video_ids, or yt-dlp
\* --flat-playlist.  The dispatch raises; or a method is entered and the
\* listing raises or is empty, which raises; or there are items
ListSources(r) ==
    /\ pc[r] = "acquire"
    /\ \/ /\ ManagerFails(r, mem[r], TRUE)
          /\ UNCHANGED stream_source
       \/ /\ stream_source' = StartMethod(stream_fields)
          /\ ManagerFails(r, mem[r], TRUE)
       \/ /\ video_ids > 0
          /\ stream_source' = StartMethod(stream_fields)
          /\ pc' = [pc EXCEPT ![r] = PhaseAfter("acquire")]
          /\ UNCHANGED <<db, mem, tempdir>>
    /\ UNCHANGED <<remote, cache, procs, streamOf, youtube, ffmpeg_process,
                   spawned, monVars, stopVars, cancelled, stream_fields,
                   video_ids, failing, loops, file_paths, concat, lineVars,
                   cache_up, liveness, poolVars>>

\* the items are got: download_files_parallel for media files,
\* the sequential loop for a playlist; an empty result of the loop raises
ResolveSources(r) ==
    /\ pc[r] = "resolve"
    /\ LET s == streamOf[r]
           got == IF stream_source = "media"
                  THEN DownloadFilesParallel(video_ids, failing)
                  ELSE ResolveSequential(video_ids, failing) IN
       /\ file_paths' = got
       /\ IF stream_source # "media" /\ NothingResolved(got)
          THEN ManagerFails(r, mem[r], TRUE)
          ELSE /\ pc' = [pc EXCEPT ![r] = PhaseAfter("resolve")]
               /\ tempdir' = IF stream_source = "media"
                             THEN [tempdir EXCEPT ![s] = TRUE] ELSE tempdir
               /\ UNCHANGED <<db, mem>>
    /\ UNCHANGED <<remote, cache, procs, streamOf, youtube, ffmpeg_process,
                   spawned, monVars, stopVars, cancelled, stream_source, stream_fields,
                   video_ids, failing, loops, concat, lineVars, cache_up, liveness,
                   poolVars>>

\* the concat file is written (loops = 100 or 50 in the callers) and
\* _build_ffmpeg_command resolves the binary; either may raise
WriteConcat(r) ==
    /\ pc[r] = "concat"
    /\ LET s == streamOf[r] IN
       \/ /\ ManagerFails(r, mem[r], TRUE)
          /\ UNCHANGED concat
       \/ /\ concat' =
                CASE stream_source = "media" ->
                       CreateConcatFile(MediaFiles(video_ids), file_paths, loops)
                  [] stream_source = "playlist" ->
                       CreatePlaylistConcatFile(file_paths, loops)
                  [] stream_source = "direct" ->
                       CreateDirectConcatFile(file_paths, loops)
          /\ pc' = [pc EXCEPT ![r] = PhaseAfter("concat")]
          /\ tempdir' = IF stream_source = "media"
                        THEN [tempdir EXCEPT ![s] = TRUE] ELSE tempdir
          /\ UNCHANGED <<db, mem>>
    /\ UNCHANGED <<remote, cache, procs, streamOf, youtube, ffmpeg_process,
                   spawned, monVars, stopVars, cancelled, stream_source, stream_fields,
                   video_ids, failing, loops, file_paths, lineVars, cache_up, liveness,
                   poolVars>>

\* self.ffmpeg_process = self._spawn_ffmpeg(ffmpeg_cmd): no process; a
\* process and an exception from the creation of the log thread; or a process
Popen(r) ==
    /\ pc[r] = "spawn"
    /\ LET p == NextPid(r) IN
       \/ /\ ManagerFails(r, mem[r], TRUE)
          /\ UNCHANGED <<procs, spawned, ffmpeg_process>>
       \/ /\ procs' = [procs EXCEPT ![p] = "alive"]
          /\ spawned' = [spawned EXCEPT ![r] = @ + 1]
          /\ ManagerFails(r, mem[r], TRUE)
          /\ UNCHANGED ffmpeg_process
       \/ /\ procs' = [procs EXCEPT ![p] = "alive"]
          /\ spawned' = [spawned EXCEPT ![r] = @ + 1]
          /\ ffmpeg_process' = [ffmpeg_process EXCEPT ![r] = p]
          /\ pc' = [pc EXCEPT ![r] = PhaseAfter("spawn")]
          /\ UNCHANGED <<db, mem, tempdir>>
    /\ UNCHANGED <<remote, cache, streamOf, youtube, monVars, stopVars,
                   cancelled, acqVars>>

\* _start_monitor_thread: the thread begins _monitor_ffmpeg with
\* restarts = 0 and current_proc = self.ffmpeg_process
StartMonitorThread(r) ==
    /\ pc[r] = "monitor"
    /\ mpc' = [mpc EXCEPT ![r] = IF LoopContinues(0) THEN "wait"
                                  ELSE "finalize"]
    /\ restarts' = [restarts EXCEPT ![r] = 0]
    /\ current_proc' = [current_proc EXCEPT ![r] = ffmpeg_process[r]]
    /\ pc' = [pc EXCEPT ![r] = PhaseAfter("monitor")]
    /\ UNCHANGED <<db, tempdir, remote, cache, procs, streamOf, mem, youtube,
                   ffmpeg_process, spawned, backoff, stopVars, cancelled,
                   acqVars>>

\* process_id = self.ffmpeg_process.pid and 'running' are set on the Stream
\* object the monitor thread shares, and saved; the cache mirror is set
SaveRunning(r) ==
    /\ pc[r] = "save"
    /\ LET s == streamOf[r]
           m == Running(mem[r], ffmpeg_process[r]) IN
       \/ /\ ~ViolatesUnique(s, m)
          /\ mem' = [mem EXCEPT ![r] = m]
          /\ db' = Saved(s, m)
          /\ cache' = SetProcessInfo(s, ffmpeg_process[r])
          /\ pc' = [pc EXCEPT ![r] = PhaseAfter("save")]
          /\ UNCHANGED tempdir
       \/ /\ ViolatesUnique(s, m)
          /\ ManagerFails(r, m, TRUE)
          /\ UNCHANGED cache
    /\ UNCHANGED <<remote, procs, streamOf, youtube, ffmpeg_process, spawned,
                   monVars, stopVars, cancelled, acqVars>>

\* ------------------------------------ a line of the concat file

Chars == {"a", "'", "\\"}
Values == UNION {[1..n -> Chars] : n \in 1..MaxValueLen}

\* url.replace("'", "'\\''"): every quote becomes the four characters '\''
RECURSIVE ReplaceQuote(_)
ReplaceQuote(s) ==
    IF s = << >> THEN << >>
    ELSE (IF Head(s) = "'" THEN <<"'", "\\", "'", "'">> ELSE <<Head(s)>>)
         \o ReplaceQuote(Tail(s))

\* f.write(f"file '{file_path}'\n") in create_concat_file and
\* _create_playlist_concat_file; f.write(f"file '{url_escaped}'\n") in
\* _create_direct_concat_file
QuotedBy(builder, v) ==
    IF builder = "direct" THEN <<"'">> \o ReplaceQuote(v) \o <<"'">>
    ELSE <<"'">> \o v \o <<"'">>

\* the token the concat demuxer reads: outside quotes a backslash takes the
\* next character as it is and a quote opens a quoted run; inside quotes
\* every character up to the next quote is taken as it is
RECURSIVE Token(_, _)
Token(s, quoted) ==
    IF s = << >> THEN << >>
    ELSE IF quoted
         THEN IF Head(s) = "'" THEN Token(Tail(s), FALSE)
              ELSE <<Head(s)>> \o Token(Tail(s), TRUE)
         ELSE IF Head(s) = "\\" /\ Len(s) >= 2
              THEN <<s[2]>> \o Token(Tail(Tail(s)), FALSE)
              ELSE IF Head(s) = "'" THEN Token(Tail(s), TRUE)
              ELSE <<Head(s)>> \o Token(Tail(s), FALSE)

\* a builder and a path or URL
InitLine ==
    /\ InitWith(0)
    /\ stream_source \in {"media", "playlist", "direct"}
    /\ stream_fields = MediaFields
    /\ video_ids = 0
    /\ failing = {}
    /\ loops = 1
    /\ file_paths = << >>
    /\ concat = << >>
    /\ value \in Values
    /\ line = << >>
    /\ parsed = << >>
    /\ lpc = "value"
    /\ liveness = NoCall
    /\ NoPool

\* the builder writes the line of the value
WriteLine ==
    /\ lpc = "value"
    /\ line' = QuotedBy(stream_source, value)
    /\ lpc' = "written"
    /\ UNCHANGED <<db, tempdir, remote, cache, procs, startVars, monVars,
                   stopVars, cancelled, stream_source, stream_fields, video_ids, failing,
                   loops, file_paths, concat, value, parsed, cache_up, liveness,
                   poolVars>>

\* the encoder reads the line
ReadLine ==
    /\ lpc = "written"
    /\ parsed' = Token(line, FALSE)
    /\ lpc' = "read"
    /\ UNCHANGED <<db, tempdir, remote, cache, procs, startVars, monVars,
                   stopVars, cancelled, stream_source, stream_fields, video_ids, failing,
                   loops, file_paths, concat, value, line, cache_up, liveness,
                   poolVars>>

\* ------------------------------------------------------------------ Next

Next ==
    \/ \E r \in Runs, s \in Streams : StreamStart(r, s)
    \/ \E r \in Runs : CreateBroadcast(r)
    \/ \E r \in Runs : AcquireAndBuild(r)
    \/ \E r \in Runs : SpawnFfmpeg(r)
    \/ \E r \in Runs : MonitorObserveExit(r)
    \/ \E r \in Runs : MonitorRestart(r)
    \/ \E r \in Runs : MonitorFinalize(r)
    \/ \E k \in Stops, s \in Streams : StreamStop(k, s)
    \/ \E k \in Stops : StopFinish(k)
    \/ \E p \in Pids : EncoderExits(p)

\* start requests on both streams, their monitors and encoders, and stop
\* requests
Spec == Init /\ [][Next]_vars

\* the same without stop requests
NextStart ==
    \/ \E r \in Runs, s \in Streams : StreamStart(r, s)
    \/ \E r \in Runs : CreateBroadcast(r)
    \/ \E r \in Runs : AcquireAndBuild(r)
    \/ \E r \in Runs : SpawnFfmpeg(r)
    \/ \E r \in Runs : MonitorObserveExit(r)
    \/ \E r \in Runs : MonitorRestart(r)
    \/ \E r \in Runs : MonitorFinalize(r)
    \/ \E p \in Pids : EncoderExits(p)

SpecStart == Init /\ [][NextStart]_vars

\* the life of one run: a single start request, its monitor and encoders,
\* and stop requests
InitMonitor == InitWith(1) /\ NoSources

SpecMonitor == InitMonitor /\ [][Next]_vars

\* the same life with the cache backend down throughout
InitCacheDown == InitRuns(1, FALSE) /\ NoSources

SpecCacheDown == InitCacheDown /\ [][Next]_vars

\* one start followed statement by statement, with its monitor and its
\* encoders
NextSources ==
    \/ \E r \in Runs, s \in Streams : StreamStart(r, s)
    \/ \E r \in Runs : Authenticate(r)
    \/ \E r \in Runs : InsertBroadcast(r)
    \/ \E r \in Runs : ListSources(r)
    \/ \E r \in Runs : ResolveSources(r)
    \/ \E r \in Runs : WriteConcat(r)
    \/ \E r \in Runs : Popen(r)
    \/ \E r \in Runs : StartMonitorThread(r)
    \/ \E r \in Runs : SaveRunning(r)
    \/ \E r \in Runs : MonitorObserveExit(r)
    \/ \E r \in Runs : MonitorRestart(r)
    \/ \E r \in Runs : MonitorFinalize(r)
    \/ \E p \in Pids : EncoderExits(p)

InitOneStart == InitWith(1) /\ InitSources

SpecSources == InitOneStart /\ [][NextSources]_vars

\* ------------------------------------------- download_files_parallel

\* an executor that starts a thread for every download submitted
WorkerFreeAs(n) == TRUE
\* ThreadPoolExecutor(max_workers=MAX_CONCURRENT_DOWNLOADS): a download is
\* taken from the queue by a worker thread, of which there are at most
\* max_workers
WorkerFree(n) == n < MAX_CONCURRENT_DOWNLOADS

\* download_files_parallel(media_files, stream_id) is entered with a list
\* of media files, some of whose downloads will fail
InitPool ==
    /\ InitWith(0)
    /\ stream_source = "media"
    /\ stream_fields = MediaFields
    /\ video_ids \in 0..MaxItems
    /\ failing \in SUBSET Ordinals(video_ids)
    /\ loops = 1
    /\ file_paths = << >>
    /\ concat = << >>
    /\ value = << >>
    /\ line = << >>
    /\ parsed = << >>
    /\ lpc = "none"
    /\ liveness = NoCall
    /\ submitted = 0
    /\ work_queue = << >>
    /\ in_progress = {}
    /\ attempts = [i \in Ordinals(video_ids) |-> 0]

\* executor.submit(download_s3_file_chunked, mf, stream_id) for the next
\* media file of the list
Submit ==
    /\ submitted < video_ids
    /\ work_queue' = Append(work_queue, submitted)
    /\ submitted' = submitted + 1
    /\ UNCHANGED <<db, tempdir, remote, cache, procs, startVars, monVars,
                   stopVars, cancelled, stream_source, stream_fields, video_ids, failing,
                   loops, file_paths, concat, lineVars, cache_up, liveness,
                   in_progress, attempts>>

\* a worker thread takes the download at the head of the queue and calls
\* download_s3_file_chunked
WorkerTakes ==
    /\ work_queue # << >>
    /\ WorkerFree(Cardinality(in_progress))
    /\ LET i == Head(work_queue) IN
       /\ in_progress' = in_progress \cup {i}
       /\ attempts' = [attempts EXCEPT ![i] = @ + 1]
    /\ work_queue' = Tail(work_queue)
    /\ UNCHANGED <<db, tempdir, remote, cache, procs, startVars, monVars,
                   stopVars, cancelled, stream_source, stream_fields, video_ids, failing,
                   loops, file_paths, concat, lineVars, cache_up, liveness,
                   submitted>>

\* download_s3_file_chunked returns the path, or None for a download that
\* failed, and as_completed hands the future to the loop:
\* file_paths[media_file.id] = future.result()
DownloadEnds(i) ==
    /\ i \in in_progress
    /\ in_progress' = in_progress \ {i}
    /\ file_paths' = [j \in (DOMAIN file_paths) \cup {i} |->
                        IF j = i THEN (IF i \in failing THEN NoPath ELSE i)
                        ELSE file_paths[j]]
    /\ UNCHANGED <<db, tempdir, remote, cache, procs, startVars, monVars,
                   stopVars, cancelled, stream_source, stream_fields, video_ids, failing,
                   loops, concat, lineVars, cache_up, liveness, submitted,
                   work_queue, attempts>>

NextPool ==
    \/ Submit
    \/ WorkerTakes
    \/ \E i \in Ordinals(MaxItems) : DownloadEnds(i)

SpecPool == InitPool /\ [][NextPool]_vars

\* ------------------------------------------- Stream.is_process_alive

\* os.kill(pid, 0): no process has the pid (ProcessLookupError), a process
\* of this user has it, or a process that may not be signalled has it
\* (PermissionError, an OSError)
KillZeroSucceeds(os) == os = "own"

\* a check that asks the OS first and the heartbeat only for a process that
\* is gone
IsProcessAliveAs(pid, age, os) ==
    IF pid = NoPid THEN FALSE ELSE KillZeroSucceeds(os)
\* is_process_alive: False without a process_id; False when last_heartbeat
\* is set and timezone.now() - last_heartbeat > timedelta(minutes=2); else
\* the outcome of os.kill(process_id, 0)
IsProcessAlive(pid, age, os) ==
    IF pid = NoPid THEN FALSE
    ELSE IF age # NoAge /\ age > StaleAfterMinutes THEN FALSE
    ELSE KillZeroSucceeds(os)

\* a row with or without a process_id, with no heartbeat or one of some
\* age, and what the OS has under that pid
InitAlive ==
    /\ InitWith(0)
    /\ stream_source = "media"
    /\ stream_fields = MediaFields
    /\ video_ids = 0
    /\ failing = {}
    /\ loops = 1
    /\ file_paths = << >>
    /\ concat = << >>
    /\ value = << >>
    /\ line = << >>
    /\ parsed = << >>
    /\ lpc = "none"
    /\ NoPool
    /\ liveness \in [process_id : {NoPid, 1, 2},
                     age : NoAge..MaxAgeMinutes,
                     os : {"none", "own", "foreign"},
                     called : {FALSE}, returned : {FALSE}]

\* stream.is_process_alive() is called (the status view)
CallIsProcessAlive ==
    /\ ~liveness.called
    /\ liveness' = [liveness EXCEPT
          !.called = TRUE,
          !.returned = IsProcessAlive(liveness.process_id, liveness.age,
                                      liveness.os)]
    /\ UNCHANGED <<db, tempdir, remote, cache, procs, startVars, monVars,
                   stopVars, cancelled, stream_source, stream_fields, video_ids, failing,
                   loops, file_paths, concat, lineVars, cache_up,
                   poolVars>>

NextAlive == CallIsProcessAlive

SpecAlive == InitAlive /\ [][NextAlive]_vars

\* a line of a concat file, written and read back
NextLine == WriteLine \/ ReadLine

SpecLine == InitLine /\ [][NextLine]_vars

\* stop_stream, called twice on one manager
NextStop ==
    \/ \E k \in Stops : StopFinish(k)
    \/ \E k \in Stops : StopStreamAgain(k)

SpecStop == InitStop /\ [][NextStop]_vars

\* ================================================================ claims

OtherActive(s) ==
    \E t \in Streams \ {s} :
        AccountOf(t) = AccountOf(s) /\ db[t].status \in ActiveStatuses

\* stop request k signals the process group of a live encoder in this step:
\* SIGTERM in StreamStop, SIGKILL in StopFinish
SendsSignal(k) ==
    \/ spc[k] = "idle" /\ spc'[k] = "sigkill"
    \/ spc[k] = "sigkill" /\ spc'[k] = "done" /\ Alive(smem[k].process_id)

\* C1: whenever a stop signals the process group of a live encoder and the
\* row holds a broadcast, the endBroadcast call of that stop has been issued
\* before.
C1_EndBroadcastBeforeSignal ==
    [][\A k \in Stops :
          SendsSignal(k) /\ smem'[k].broadcast_id # NoBroadcast
              => endAttempted[k]]_vars

\* C2: a finished stop whose row held a broadcast_id has attempted
\* endBroadcast.
C2_StopAttemptsEndBroadcast ==
    \A k \in Stops :
        spc[k] = "done" /\ smem[k].broadcast_id # NoBroadcast
            => endAttempted[k]

\* C3: no two streams of one account are active (starting or running) at
\* once.
C3_OneActivePerAccount ==
    \A s \in Streams : db[s].status \in ActiveStatuses => ~OtherActive(s)

\* C4: a start called while another stream of the account is starting or
\* running is rejected at once: it goes on to no broadcast and no spawn.
C4_SecondStartRejected ==
    [][\A r \in Runs :
          pc[r] = "idle" /\ pc'[r] # "idle" /\ OtherActive(streamOf'[r])
              => pc'[r] \in {"failed", "returned"}]_vars

\* C5: the monitor counts an exit with a non-zero code only at a restart
\* count r < MAX_STREAM_RESTARTS, sleeps min(60, 5 * (r + 1)), and then
\* calls _spawn_ffmpeg once: a monitor launches a process only in the step
\* that ends a backoff, one process, and goes back to waiting only on the
\* process it launched, whose pid it has saved.
C5_OneRestartAfterBackoff ==
    [][\A r \in Runs :
          /\ mpc[r] = "wait" /\ mpc'[r] = "backoff"
                => /\ restarts[r] < MAX_STREAM_RESTARTS
                   /\ restarts'[r] = restarts[r] + 1
                   /\ backoff'[r] = Min(60, 5 * (restarts[r] + 1))
                   /\ spawned'[r] = spawned[r]
          /\ mpc[r] = "wait" /\ procs[current_proc[r]] = "killed"
                /\ mpc'[r] # "wait" => mpc'[r] = "backoff"
          /\ mpc[r] = "backoff"
                => /\ backoff[r] = Min(60, 5 * restarts[r])
                   /\ mpc'[r] = "backoff" => spawned'[r] = spawned[r]
                   /\ spawned'[r] \in {spawned[r], spawned[r] + 1}
          /\ mpc[r] = "backoff" /\ mpc'[r] = "wait"
                => /\ spawned'[r] = spawned[r] + 1
                   /\ Alive(current_proc[r])'
                   /\ current_proc'[r] # current_proc[r]
                   /\ db'[streamOf[r]].process_id = current_proc'[r]
          /\ mpc[r] \in {"wait", "finalize", "done"}
                => spawned'[r] = spawned[r]]_vars

\* a monitor is about to restart for the third time, after a sleep of 15
C5_Witness ==
    \E r \in Runs :
        /\ mpc[r] = "backoff"
        /\ restarts[r] = 3
        /\ backoff[r] = 15
        /\ spawned[r] = 3

\* the monitor is at its loop condition, or past it, with restarts at the
\* maximum
AtMaximum(r) == restarts[r] = MAX_STREAM_RESTARTS /\ mpc[r] # "backoff"

\* C6: with the restart count at MAX_STREAM_RESTARTS the monitor waits on no
\* process and spawns none: it finalises the run, and the finalisation
\* saves status 'error'.
C6_ErrorAtMaximum ==
    [][\A r \in Runs :
          AtMaximum(r)
              => /\ mpc[r] \in {"finalize", "done"}
                 /\ spawned'[r] = spawned[r]
                 /\ restarts'[r] = restarts[r]
                 /\ mpc'[r] \in {"finalize", "done"}
                 /\ mpc[r] = "finalize" /\ mpc'[r] = "done"
                       => db'[streamOf[r]].status = "error"]_vars

\* a run finalised as 'error' after MAX_STREAM_RESTARTS restarts
C6_Witness ==
    \E r \in Runs :
        /\ restarts[r] = MAX_STREAM_RESTARTS
        /\ mpc[r] = "done"
        /\ spawned[r] = MAX_STREAM_RESTARTS + 1
        /\ db[streamOf[r]].status = "error"

\* C7: once a stop of the stream has run between the save of 'starting' and
\* the spawn, the start spawns no encoder and does not reach 'running'.
C7_StopPreventsSpawn ==
    [][\A r \in Runs :
          cancelled[r]
              => /\ spawned'[r] = spawned[r]
                 /\ pc'[r] = "started" => pc[r] = "started"]_vars

\* C8: the monitor takes the exit of an encoder that a stop has signalled as
\* a controlled shutdown: it leaves the loop without counting a restart.
C8_KilledIsCleanExit ==
    [][\A r \in Runs :
          (mpc[r] = "wait" /\ procs[current_proc[r]] = "killed"
                           /\ mpc'[r] # "wait")
              => mpc'[r] = "finalize" /\ restarts'[r] = restarts[r]]_vars

\* start request r returns in this step, having failed
StartFails(r) == pc[r] # "failed" /\ pc'[r] = "failed"

\* C9: a start that fails leaves the row with status 'error' and a
\* non-empty error_message.
C9_FailedStartIsError ==
    [][\A r \in Runs :
          StartFails(r)
              => /\ db'[streamOf'[r]].status = "error"
                 /\ db'[streamOf'[r]].error_message # NoMsg]_vars

\* a start has failed after its broadcast was created and its encoder
\* launched, and the row says 'error'
C9_Witness ==
    \E r \in Runs :
        /\ pc[r] = "failed"
        /\ remote[r] = "created"
        /\ spawned[r] = 1
        /\ db[streamOf[r]].status = "error"
        /\ db[streamOf[r]].error_message # NoMsg

\* C10: the workspace directory of the stream is gone when a start that had
\* constructed its manager fails, when a stop finishes, and when the monitor
\* finalises the run.
C10_WorkspaceReleased ==
    [][/\ \A r \in Runs :
             /\ StartFails(r) /\ pc[r] \in PreSpawn => ~tempdir'[streamOf[r]]
             /\ mpc[r] = "finalize" /\ mpc'[r] = "done"
                   => ~tempdir'[streamOf[r]]
       /\ \A k \in Stops :
             spc[k] # "done" /\ spc'[k] = "done" => ~tempdir'[sstream[k]]]_vars

\* C11: when a start fails with its broadcast already created at the
\* destination, the transition of that broadcast to complete has been
\* called by the time the start returns.
C11_FailedStartEndsBroadcast ==
    [][\A r \in Runs :
          StartFails(r) /\ remote'[r] # "none" => r \in transitions']_vars

\* C12: with media files of which a download fails, the start leaves the
\* downloads for its except branch: no concat file is written and no encoder
\* is launched.
C12_BulkFailureFailsStart ==
    [][\A r \in Runs :
          stream_source = "media" /\ failing # {}
              => /\ pc[r] = "resolve" /\ pc'[r] # "resolve"
                    => pc'[r] = "failed"
                 /\ concat' = << >>
                 /\ spawned'[r] = 0]_vars

\* C13: the sequential loop over a playlist returns the items that did not
\* fail, each under the ordinal it has in the listing, N - |F| of them, and
\* the start goes on when there is at least one.
C13_SequentialKeepsSuccesses ==
    [][\A r \in Runs :
          pc[r] = "resolve" /\ pc'[r] # "resolve" /\ stream_source # "media"
              => LET ok == Ordinals(video_ids) \ failing IN
                 /\ DOMAIN file_paths' = ok
                 /\ \A i \in ok : file_paths'[i] = i
                 /\ Cardinality(DOMAIN file_paths')
                       = video_ids - Cardinality(failing)
                 /\ ok # {} => pc'[r] = "concat"]_vars

\* five items listed, the third failed: four entries, and the start goes on
C13_Witness ==
    /\ stream_source = "playlist"
    /\ video_ids = 5
    /\ failing = {2}
    /\ pc[1] = "concat"
    /\ DOMAIN file_paths = {0, 1, 3, 4}

\* no item of the playlist is got: the listing is empty or every item fails
NoneSucceeds ==
    stream_source # "media" /\ Ordinals(video_ids) \ failing = {}

\* C14: when no item of a playlist is got, the start fails where the
\* listing or the result is found empty, the row is saved with 'error' and
\* a message, and no encoder is launched.
C14_NothingResolvedIsError ==
    [][\A r \in Runs :
          NoneSucceeds
              => /\ (\/ pc[r] = "resolve"
                     \/ pc[r] = "acquire" /\ video_ids = 0) /\ pc'[r] # pc[r]
                       => /\ pc'[r] = "failed"
                          /\ db'[streamOf[r]].status = "error"
                          /\ db'[streamOf[r]].error_message # NoMsg
                 /\ pc'[r] \notin {"concat", "spawn", "monitor", "save",
                                   "started"}
                 /\ concat' = << >>
                 /\ spawned'[r] = 0]_vars

\* a start has failed in start_ffmpeg_stream with both videos of the
\* playlist failing
C14_Witness ==
    /\ stream_source = "direct"
    /\ video_ids = 2
    /\ failing = {0, 1}
    /\ pc[1] = "failed"
    /\ remote[1] = "created"
    /\ mem[1].broadcast_id = 1
    /\ ~tempdir[1]
    /\ db[1].status = "error"
    /\ spawned[1] = 0

\* the concat file of the start has been written
ConcatWritten(r) == pc[r] \in {"spawn", "monitor", "save", "started"}

\* C15: the concat file holds loops passes over the sources, each pass the
\* sources in ascending order of their ordinals: loops * |S| entries, the
\* entry j of every pass being the source with j - 1 sources below it.
C15_LoopsPassesInOrder ==
    \A r \in Runs :
        ConcatWritten(r)
            => LET K == DOMAIN file_paths
                   n == Cardinality(K)
                   Nth(j) == CHOOSE k \in K :
                                Cardinality({x \in K : x < k}) = j - 1
               IN  /\ Len(concat) = loops * n
                   /\ \A l \in 0..(loops - 1), j \in 1..n :
                         concat[l * n + j] = file_paths[Nth(j)]

\* sources [A, B] and three loops: A, B, A, B, A, B
C15_Witness ==
    /\ stream_source = "playlist"
    /\ video_ids = 2
    /\ loops = 3
    /\ pc[1] = "spawn"
    /\ concat = <<0, 1, 0, 1, 0, 1>>

\* C16: the value the demuxer reads from the line of a path or URL that
\* holds a single quote is that path or URL.
C16_QuoteRoundTrip ==
    lpc = "read" /\ (\E i \in 1..Len(value) : value[i] = "'")
        => parsed = value

\* C17: every call of stop_stream returns True, and a call whose transition
\* meets a completed or forbidden broadcast leaves the broadcast as it was
\* and saves 'stopped' like any other.
C17_EndBroadcastIdempotent ==
    [][\A k \in Stops :
          Len(stop_log'[k]) > Len(stop_log[k])
              => LET e == stop_log'[k][Len(stop_log'[k])] IN
                 /\ e.returned
                 /\ e.met \in {"complete", "forbidden"}
                       => /\ remote' = remote
                          /\ db'[sstream[k]].status = "stopped"
                          /\ smem[k].broadcast_id \in transitions']_vars

\* two calls on a completed broadcast, both made the transition call and
\* both returned True
C17_Witness ==
    /\ spc[1] = "done"
    /\ stop_log[1] = <<[met |-> "complete", returned |-> TRUE],
                       [met |-> "complete", returned |-> TRUE]>>
    /\ remote[1] = "complete"

\* the items got are all there: no item of a bulk download is without a
\* path, and a sequential resolution has kept at least one item
Acquired ==
    /\ DOMAIN file_paths # {}
    /\ stream_source = "media"
          => \A i \in DOMAIN file_paths : file_paths[i] # NoPath

\* C18: within one start every phase acts only on what the phase before it
\* has left on success: the client is made for a row saved as 'starting',
\* the broadcast is created with a client, the sources are got for a created
\* and recorded broadcast, the concat file is written from sources that were
\* all got, the first encoder is launched on a written concat file, the
\* monitor is started on a launched encoder, and 'running' is saved with the
\* monitor started.
C18_PhasesInOrder ==
    [][\A r \in Runs :
          /\ (~youtube[r] /\ youtube'[r])
                => /\ mem[r].status = "starting"
                   /\ db[streamOf[r]].status = "starting"
          /\ remote'[r] # remote[r] => youtube[r]
          /\ (pc'[r] # pc[r] /\ file_paths' # file_paths)
                => /\ remote[r] = "created"
                   /\ mem[r].broadcast_id = r
          /\ concat' # concat => Acquired
          /\ (mpc[r] = "idle" /\ spawned'[r] > spawned[r])
                => /\ concat # << >>
                   /\ concat' = concat
          /\ (mpc[r] = "idle" /\ mpc'[r] # "idle")
                => /\ ffmpeg_process[r] # NoPid
                   /\ spawned[r] = 1
          /\ (pc[r] # "started" /\ pc'[r] = "started")
                => /\ mpc[r] # "idle"
                   /\ db'[streamOf[r]].status = "running"
          /\ (pc[r] \in {"create_broadcast", "insert", "acquire", "resolve",
                         "concat", "spawn", "monitor", "save"}
              /\ pc'[r] # pc[r])
                => \/ pc'[r] = "failed"
                   \/ Position(pc'[r]) = Position(pc[r]) + 1]_vars

\* the processes launched by run r
RunEncoders(r) == {p \in Pids : (p - 1) \div SpawnsPerRun + 1 = r}

\* the start of run r has returned and its monitor thread has ended, so no
\* encoder of the run is launched any more, and none is left alive
EncoderGoneForGood(r) ==
    /\ pc[r] \in {"started", "failed"}
    /\ mpc[r] = "done"
    /\ spawned[r] > 0
    /\ \A p \in RunEncoders(r) : ~Alive(p)

\* C19: once the encoder of a run is gone and nothing is left that would
\* launch another, the row is not 'running'.  (Nothing of the run acts after
\* such a state, so a row that is 'running' in it stays 'running'.)
C19_NotSilentlyRunning ==
    \A r \in Runs :
        EncoderGoneForGood(r) => db[streamOf[r]].status # "running"

\* the encoders alive that were launched, by a start or by its monitor, for
\* stream s
EncodersAlive(s) ==
    {p \in Pids : Alive(p) /\ \E r \in Runs : p \in RunEncoders(r)
                                              /\ pc[r] \notin {"idle", "absent"}
                                              /\ streamOf[r] = s}

\* C20: at most one encoder process is alive per stream.
C20_OneEncoderPerStream ==
    \A s \in Streams : Cardinality(EncodersAlive(s)) <= 1

\* call k of stop_stream returns in this step, and returns True
StopReturnsTrue(k) ==
    /\ Len(stop_log'[k]) > Len(stop_log[k])
    /\ stop_log'[k][Len(stop_log'[k])].returned

\* C21: when stop_stream returns True the row of the stream is 'stopped',
\* has no process_id and no last_heartbeat, and the workspace directory of
\* the stream is gone.
C21_StopLeavesStopped ==
    [][\A k \in Stops :
          StopReturnsTrue(k)
              => LET s == sstream[k] IN
                 /\ db'[s].status = "stopped"
                 /\ db'[s].process_id = NoPid
                 /\ db'[s].last_heartbeat = NoHeartbeat
                 /\ ~tempdir'[s]]_vars

\* a stop of a running stream has returned True: its encoder was killed
C21_Witness ==
    /\ spc[1] = "done"
    /\ stop_log[1] # << >>
    /\ stop_log[1][1].returned
    /\ db[1].status = "stopped"
    /\ db[1].started_at
    /\ \E p \in Pids : procs[p] = "killed"

\* C22: when stop_stream returns True the cache holds no entry for the
\* stream.
C22_StopClearsCache ==
    [][\A k \in Stops :
          StopReturnsTrue(k) => cache'[sstream[k]] = NoPid]_vars

\* C23: every change of the status of a row is a change of the state
\* machine idle -> starting -> running -> stopping -> {stopped, error}, with
\* error from starting or running (a new start of a stream that has ended is
\* counted among them); none goes from stopped or error to running, or from
\* idle to stopping or running.
C23_StatusFollowsStateMachine ==
    [][\A s \in Streams :
          db'[s].status # db[s].status
              => <<db[s].status, db'[s].status>> \in
                    {<<"idle", "starting">>, <<"starting", "running">>,
                     <<"running", "stopping">>, <<"stopping", "stopped">>,
                     <<"stopping", "error">>, <<"starting", "error">>,
                     <<"running", "error">>, <<"stopped", "starting">>,
                     <<"error", "starting">>}]_vars

\* C24: a stream that is 'running' with its monitor thread in the loop has
\* a last_heartbeat on its row.
C24_RunningHasHeartbeat ==
    \A r \in Runs :
        /\ pc[r] = "started"
        /\ mpc[r] \in {"wait", "backoff"}
        /\ db[streamOf[r]].status = "running"
        => db[streamOf[r]].last_heartbeat # NoHeartbeat

\* C25: with the cache down nothing is cached, and the start, the restart,
\* the finalisation and the stop write the row and release the workspace as
\* they do with the cache there: a start that succeeds saves 'running' with
\* its pid, a restart saves 'running' with the new pid, the finalisation
\* saves the final status without a pid and removes the workspace, and a
\* stop saves 'stopped' and removes the workspace.
C25_CacheDownSameTransitions ==
    [][~cache_up =>
         /\ cache' = cache
         /\ \A r \in Runs :
               LET s == streamOf[r] IN
               /\ (pc[r] = "spawn" /\ pc'[r] = "started")
                     => /\ db'[s].status = "running"
                        /\ db'[s].process_id = ffmpeg_process'[r]
               /\ (mpc[r] = "backoff" /\ mpc'[r] = "wait")
                     => /\ db'[s].status = "running"
                        /\ db'[s].process_id = current_proc'[r]
               /\ (mpc[r] = "finalize" /\ mpc'[r] = "done")
                     => /\ db'[s].status = FinalStatus(restarts[r])
                        /\ db'[s].process_id = NoPid
                        /\ ~tempdir'[s]
         /\ \A k \in Stops :
               StopReturnsTrue(k)
                   => /\ db'[sstream[k]].status = "stopped"
                      /\ ~tempdir'[sstream[k]]]_vars

\* with the cache down a run was started, restarted up to the maximum and
\* finalised
C25_Witness ==
    /\ ~cache_up
    /\ pc[1] = "started"
    /\ mpc[1] = "done"
    /\ restarts[1] = MAX_STREAM_RESTARTS
    /\ db[1].status = "error"
    /\ ~tempdir[1]

\* C26: when the monitor finalises a run, the process the monitor last
\* launched is not running, and no other encoder of the run is alive.
C26_FinalisedRunHasNoEncoder ==
    [][\A r \in Runs :
          (mpc[r] = "finalize" /\ mpc'[r] = "done")
              => /\ ~Alive(current_proc[r])
                 /\ \A p \in RunEncoders(r) : ~Alive(p)]_vars

RestartSucceeds(r) ==
    /\ mpc[r] = "backoff"
    /\ mpc'[r] = "wait"

\* C28: after a restart that succeeded the row of the stream is 'running'
\* with the pid of the process just launched, and the cache holds that pid.
C28_RestartUpdatesPid ==
    [][\A r \in Runs :
          RestartSucceeds(r)
              => LET s == streamOf[r]
                     p == current_proc'[r] IN
                 /\ procs[p] = "none" /\ procs'[p] = "alive"
                 /\ db'[s].status = "running"
                 /\ db'[s].process_id = p
                 /\ cache'[s] = p]_vars

\* the second replacement is being watched and is the process of the row
C28_Witness ==
    /\ mpc[1] = "wait"
    /\ restarts[1] = 2
    /\ spawned[1] = 3
    /\ db[1].status = "running"
    /\ db[1].process_id = current_proc[1]
    /\ cache[1] = current_proc[1]
    /\ current_proc[1] # ffmpeg_process[1]

\* the start of run r returns the pid in this step
StartSucceeds(r) ==
    /\ pc[r] # "started"
    /\ pc'[r] = "started"

\* C29: when a start succeeds, from media files, a downloaded playlist or a
\* playlist served directly, the row is 'running' with the pid of the
\* encoder the start launched and with started_at set, and the cache holds
\* that pid.
C29_StartLeavesRunning ==
    [][\A r \in Runs :
          StartSucceeds(r)
              => LET s == streamOf[r]
                     p == ffmpeg_process'[r] IN
                 /\ p \in RunEncoders(r)
                 /\ procs'[p] # "none"
                 /\ db'[s].status = "running"
                 /\ db'[s].process_id = p
                 /\ db'[s].started_at
                 /\ cache'[s] = p]_vars

\* a start from a playlist served directly has succeeded
C29_Witness ==
    /\ pc[1] = "started"
    /\ stream_source = "direct"
    /\ mpc[1] = "wait"
    /\ Alive(ffmpeg_process[1])
    /\ db[1].status = "running"
    /\ db[1].process_id = ffmpeg_process[1]
    /\ db[1].started_at
    /\ cache[1] = ffmpeg_process[1]

\* the monitor of run r is past a restart whose _spawn_ffmpeg made no
\* process: every restart before it had added a process, this one has not
RestartSpawnFailed(r) ==
    /\ mpc[r] = "finalize"
    /\ restarts[r] >= 1
    /\ spawned[r] = restarts[r]

\* C30: a start whose spawn makes no process ends in 'error' with no
\* monitor started; a restart whose spawn makes no process is followed by no
\* other spawn, and the run is finalised as 'error'.
C30_SpawnFailureIsFatal ==
    [][\A r \in Runs :
          LET s == streamOf[r] IN
          /\ (pc[r] = "spawn" /\ pc'[r] = "failed" /\ spawned'[r] = 0)
                => /\ db'[s].status = "error"
                   /\ mpc'[r] = "idle"
          /\ (pc[r] = "failed" /\ spawned[r] = 0) => mpc'[r] = "idle"
          /\ RestartSpawnFailed(r)
                => /\ spawned'[r] = spawned[r]
                   /\ mpc'[r] \in {"finalize", "done"}
                   /\ mpc'[r] = "done" => db'[s].status = "error"]_vars

\* call k of stop_stream returns in this step after a transition call that
\* was made and failed: the broadcast is not live, or is live still
EndBroadcastFails(k) ==
    LET b == smem[k].broadcast_id IN
    /\ Len(stop_log'[k]) > Len(stop_log[k])
    /\ EndsBroadcast(syoutube[k], smem[k])
    /\ remote[b] # "created" \/ remote'[b] = "created"

\* C31: a transition call that fails in stop_stream does not stop the stop:
\* the encoder of the row is not running afterwards, 'stopped' is saved
\* without a pid, the workspace is removed and True is returned.
C31_EndBroadcastFailureNotFatal ==
    [][\A k \in Stops :
          EndBroadcastFails(k)
              => LET s == sstream[k] IN
                 /\ stop_log'[k][Len(stop_log'[k])].returned
                 /\ ~(smem[k].process_id # NoPid
                      /\ procs'[smem[k].process_id] = "alive")
                 /\ db'[s].status = "stopped"
                 /\ db'[s].process_id = NoPid
                 /\ ~tempdir'[s]]_vars

\* a stop of a stream with a running encoder and a live broadcast whose
\* transition call failed: the encoder is killed, the broadcast is live still
C31_Witness ==
    /\ spc[1] = "done"
    /\ stop_log[1] # << >>
    /\ stop_log[1][1] = [met |-> "created", returned |-> TRUE]
    /\ remote[1] = "created"
    /\ procs[1] = "killed"
    /\ db[1].status = "stopped"
    /\ ~tempdir[1]

\* the start of run r has ended on a remote call of create_broadcast that
\* raised: the manager has a client, and no broadcast_id was recorded
CreationFailed(r) ==
    /\ pc[r] = "failed"
    /\ youtube[r]
    /\ mem[r].broadcast_id = NoBroadcast

\* C32: a start whose create_broadcast met an API error has ended with the
\* row in 'error', no source listed or got, no concat file written, no
\* encoder launched and no monitor started.
C32_CreationFailureIsFatal ==
    \A r \in Runs :
        (youtube[r] /\ mem[r].broadcast_id = NoBroadcast
         /\ pc[r] \notin {"create_broadcast", "insert"})
            => /\ pc[r] = "failed"
               /\ db[streamOf[r]].status = "error"
               /\ db[streamOf[r]].error_message # NoMsg
               /\ file_paths = << >>
               /\ concat = << >>
               /\ spawned[r] = 0
               /\ mpc[r] = "idle"

\* the bind (or the second insert) failed: the broadcast exists at the
\* destination and the start has ended in 'error'
C32_Witness ==
    /\ CreationFailed(1)
    /\ remote[1] = "created"
    /\ db[1].status = "error"
    /\ spawned[1] = 0

\* download_files_parallel has returned: every media file was submitted
\* and no download is queued or running
PoolDone ==
    /\ submitted = video_ids
    /\ work_queue = << >>
    /\ in_progress = {}

\* C33: at most MAX_CONCURRENT_DOWNLOADS downloads run at once, no media
\* file is downloaded twice, and when download_files_parallel returns every
\* media file has been attempted once and has its entry in the result.
C33_BoundedPoolEachOnce ==
    /\ Cardinality(in_progress) <= MAX_CONCURRENT_DOWNLOADS
    /\ \A i \in DOMAIN attempts : attempts[i] <= 1
    /\ (PoolDone /\ video_ids > 0)
          => /\ \A i \in Ordinals(video_ids) : attempts[i] = 1
             /\ file_paths = DownloadFilesParallel(video_ids, failing)

\* five media files have been downloaded, two at a time, one of them failing
C33_Witness ==
    /\ PoolDone
    /\ video_ids = 5
    /\ failing = {2}
    /\ \A i \in Ordinals(5) : attempts[i] = 1
    /\ file_paths[2] = NoPath

\* the process_id stop request k works with: that of the row it loads, then
\* that of its Stream object
StopPid(k) ==
    IF spc[k] = "idle" THEN db[sstream'[k]].process_id
    ELSE smem[k].process_id

\* C34: a stop whose row names a process that is gone, before the SIGTERM
\* or by the time of the SIGKILL, goes on: when it returns it returns True,
\* with 'stopped' and no process_id saved.
C34_StopPassesGoneProcess ==
    [][\A k \in Stops :
          (Len(stop_log'[k]) > Len(stop_log[k])
           /\ StopPid(k) # NoPid
           /\ procs[StopPid(k)] # "alive")
              => /\ stop_log'[k][Len(stop_log'[k])].returned
                 /\ db'[sstream[k]].status = "stopped"
                 /\ db'[sstream[k]].process_id = NoPid]_vars

\* a running stream whose encoder had exited, unnoticed by the monitor so
\* far, has been stopped
C34_Witness ==
    /\ pc[1] = "started"
    /\ mpc[1] = "wait"
    /\ procs[1] = "exited"
    /\ spc[1] = "done"
    /\ stop_log[1] # << >>
    /\ stop_log[1][1].returned
    /\ db[1].status = "stopped"
    /\ db[1].process_id = NoPid

C36_CleanEndWritesNoMessage ==
    [][\A r \in Runs :
          (/\ mpc[r] = "finalize" /\ mpc'[r] = "done"
           /\ db'[streamOf[r]] # db[streamOf[r]]
           /\ db'[streamOf[r]].status = "stopped")
              => db'[streamOf[r]].error_message = mem[r].error_message]_vars

\* C37: in one run the encoder is launched at most 1 + MAX_STREAM_RESTARTS
\* times, and the monitor counts at most MAX_STREAM_RESTARTS exits: it waits
\* for an encoder only while fewer have been counted, and with the maximum
\* counted and the last restart made it finalises.
C37_BoundedSpawnsAndExits ==
    \A r \in Runs :
        /\ spawned[r] <= 1 + MAX_STREAM_RESTARTS
        /\ restarts[r] <= MAX_STREAM_RESTARTS
        /\ mpc[r] = "wait" => restarts[r] < MAX_STREAM_RESTARTS
        /\ restarts[r] = MAX_STREAM_RESTARTS
              => mpc[r] \in {"backoff", "finalize", "done"}

\* the run has launched its encoder four times, counted three exits and
\* ended
C37_Witness ==
    /\ spawned[1] = 1 + MAX_STREAM_RESTARTS
    /\ restarts[1] = MAX_STREAM_RESTARTS
    /\ mpc[1] = "done"
    /\ db[1].status = "error"

\* no request and no monitor is in the middle of an operation: every start
\* has returned, every stop_stream has returned, and each monitor is
\* waiting for its encoder or has ended
Quiescent ==
    /\ \A r \in Runs : /\ pc[r] \in {"idle", "absent", "started", "failed",
                                     "returned"}
                       /\ mpc[r] \in {"idle", "wait", "done"}
    /\ \A k \in Stops : spc[k] \in {"idle", "done"}

\* C38: outside the middle of an operation a row with status 'running' has
\* a process_id, and a row with status 'stopped' or 'error' has none.
C38_StatusMatchesProcessId ==
    Quiescent
        => \A s \in Streams :
              /\ db[s].status = "running" => db[s].process_id # NoPid
              /\ db[s].status \in {"stopped", "error"}
                    => db[s].process_id = NoPid

\* C39: a start request for a stream whose row is 'running' or 'starting'
\* returns without beginning a run: the rows, the workspaces, the broadcasts
\* and the processes are as before.
C39_StartOnActiveIsNoOp ==
    [][\A r \in Runs :
          (/\ pc[r] = "idle" /\ pc'[r] # "idle"
           /\ db[streamOf'[r]].status \in {"running", "starting"})
              => /\ pc'[r] = "returned"
                 /\ UNCHANGED <<db, tempdir, remote, procs, spawned>>]_vars

====
